---- MODULE Spec2Model ----
(***************************************************************************)
(* imagekit-mcp-server (index.js): the tool handlers, the lazily built     *)
(* ImageKit client and the upload / URL request normalisation.             *)
(*                                                                         *)
(* Representation.  A JavaScript string is a sequence of one-character     *)
(* strings (<<"/", "a">> is "/a"); fixed phrases of a message are single   *)
(* tokens (<<"File not found: ">> \o filePath).  A JavaScript object is a  *)
(* function whose DOMAIN holds exactly the keys that are set: a key that   *)
(* is absent (or undefined) is not in the DOMAIN.                          *)
(***************************************************************************)
EXTENDS Integers, Sequences, FiniteSets, TLC

VARIABLES
    env,          \* process.env: the three IMAGEKIT_* variables that are set
    client,       \* index.js:12  `let client = null`: 0 is null, n > 0 the n-th ImageKit object
    constructed,  \* number of `new ImageKit(...)` evaluations so far (index.js:27)
    calls,        \* the tool calls the host has outstanding, one record per call slot
    subject,      \* trimSlash on its own: the folder string it is given
    trail         \* trimSlash on its own: the results of applying it again and again

vars == <<env, client, constructed, calls, subject, trail>>

----------------------------------------------------------------------------
(* Bounds of the model *)

NCalls == 2          \* tool calls that may be outstanding at once
MaxFolderLen == 3    \* longest folder string enumerated
MaxTailLen == 3      \* longest text enumerated after a base64Data head

----------------------------------------------------------------------------
(* JavaScript values *)

NoKeys == [k \in {} |-> 0]                      \* the object {}
Has(o, k) == k \in DOMAIN o                     \* o.k !== undefined
Without(o, ks) == [k \in (DOMAIN o) \ ks |-> o[k]]
Pick(o, ks) == [k \in (DOMAIN o) \cap ks |-> o[k]]
OptField(k, S) == {NoKeys} \cup {k :> v : v \in S}

\* all strings over the alphabet A of length at most n
Strings(A, n) == UNION {[1..m -> A] : m \in 0..n}

\* String.prototype.startsWith
startsWith(s, p) == Len(s) >= Len(p) /\ SubSeq(s, 1, Len(p)) = p

\* String.prototype.endsWith
endsWith(s, p) == Len(s) >= Len(p) /\ SubSeq(s, Len(s) - Len(p) + 1, Len(s)) = p

\* String.prototype.slice(0, -1)
sliceDropLast(s) == SubSeq(s, 1, Len(s) - 1)

\* positions of the separator character in s
SepPositions(s, sep) == {i \in 1..Len(s) : s[i] = sep}

\* String.prototype.split(sep) for a one-character separator: the pieces between
\* successive separators, in order (one more piece than there are separators)
RECURSIVE split(_, _)
split(s, sep) ==
    IF SepPositions(s, sep) = {} THEN <<s>>
    ELSE LET i == CHOOSE j \in SepPositions(s, sep) : \A k \in SepPositions(s, sep) : j <= k
         IN  <<SubSeq(s, 1, i - 1)>> \o split(SubSeq(s, i + 1, Len(s)), sep)

----------------------------------------------------------------------------
(* The ImageKit client: lazy initialisation, fail-fast on missing credentials *)

PUBLIC_KEY == "IMAGEKIT_PUBLIC_KEY"
PRIVATE_KEY == "IMAGEKIT_PRIVATE_KEY"
URL_ENDPOINT == "IMAGEKIT_URL_ENDPOINT"

\* the value JavaScript gives for a key that is not set; it is no string of
\* characters (a character is a one-character string)
undefined == <<"undefined">>

Get(o, k) == IF Has(o, k) THEN o[k] ELSE undefined

\* !v for a value that is a string or undefined
Not(v) == v = undefined \/ v = <<>>

MissingCredentials ==
    <<"Missing credentials. Set IMAGEKIT_PUBLIC_KEY, IMAGEKIT_PRIVATE_KEY, and IMAGEKIT_URL_ENDPOINT.">>

\* index.js:21 with only the public key tested
credentialsMissingPublicOnly(e) == Not(Get(e, PUBLIC_KEY))

\* index.js:17-21  !publicKey || !privateKey || !urlEndpoint
credentialsMissing(e) ==
    Not(Get(e, PUBLIC_KEY)) \/ Not(Get(e, PRIVATE_KEY)) \/ Not(Get(e, URL_ENDPOINT))

\* getClient without the `if (client) return client` line: a client per call
getClientUncached(cl, n, e) ==
    IF credentialsMissing(e)
    THEN [threw |-> TRUE, client |-> cl, constructed |-> n, ik |-> 0]
    ELSE [threw |-> FALSE, client |-> n + 1, constructed |-> n + 1, ik |-> n + 1]

\* index.js:14-29  getClient(), from the module variable `client` (cl), the
\* number of clients built so far (n) and process.env (e): whether it threw,
\* the module variable and the count afterwards, and the object returned.
getClient(cl, n, e) ==
    IF cl # 0
    THEN [threw |-> FALSE, client |-> cl, constructed |-> n, ik |-> cl]
    ELSE IF credentialsMissing(e)
    THEN [threw |-> TRUE, client |-> cl, constructed |-> n, ik |-> 0]
    ELSE [threw |-> FALSE, client |-> n + 1, constructed |-> n + 1, ik |-> n + 1]

----------------------------------------------------------------------------
(* Helpers *)

\* index.js:33-36
trimSlash(folder) ==
    IF Not(folder) THEN <<"/">>
    ELSE IF endsWith(folder, <<"/">>) THEN sliceDropLast(folder) ELSE folder

\* index.js:38-40
formatResult(text) == [content |-> <<[type |-> "text", text |-> text]>>]

\* index.js:42-44
formatError(message) ==
    [content |-> <<[type |-> "text", text |-> message]>>, isError |-> TRUE]

\* the isError flag and the text of a ToolResult, as the host reads them
IsError(r) == Has(r, "isError") /\ r.isError
TextOf(r) == r.content[1].text

\* (bytes / 1024).toFixed(1): kilobytes rounded to one decimal place
toFixed1KB(bytes) ==
    LET tenths == (bytes * 10 + 512) \div 1024
    IN  ToString(tenths \div 10) \o "." \o ToString(tenths % 10)

\* Array.prototype.join for an array of strings
RECURSIVE join(_, _)
join(xs, sep) ==
    IF xs = <<>> THEN <<>>
    ELSE IF Len(xs) = 1 THEN xs[1]
    ELSE xs[1] \o sep \o join(Tail(xs), sep)

\* index.js:46-53
formatFileInfo(file) ==
    LET size == IF Has(file, "size") /\ file.size # 0
                THEN <<toFixed1KB(file.size), " KB">> ELSE <<"N/A">>
        dims == IF Has(file, "width") /\ Has(file, "height") /\ file.width # 0 /\ file.height # 0
                THEN <<ToString(file.width), "x", ToString(file.height)>> ELSE <<>>
        tags == IF Has(file, "tags") /\ Len(file.tags) > 0
                THEN <<"\n   Tags: ">> \o join(file.tags, <<", ">>) ELSE <<>>
    IN  file.name \o <<" (">>
        \o (IF Has(file, "fileType") /\ file.fileType # <<>> THEN file.fileType ELSE <<"file">>)
        \o <<", ">> \o size \o (IF dims # <<>> THEN <<", ">> \o dims ELSE <<>>) \o <<")">>
        \o tags \o <<"\n   ID: ">> \o Get(file, "fileId") \o <<"\n   URL: ">> \o Get(file, "url")

----------------------------------------------------------------------------
(* What a handler does when it runs: it returns a ToolResult, throws, or  *)
(* suspends at `await ik.<op>(req)` until the backend settles the promise. *)

Return(v) == [kind |-> "return", value |-> v]
Throw(m) == [kind |-> "throw", message |-> m]
Await(op, req) == [kind |-> "await", op |-> op, req |-> req]

\* a handler run that did not call getClient()
NoClientUse(cl, n) == [threw |-> FALSE, client |-> cl, constructed |-> n, ik |-> 0]

\* a handler run: gc is what its getClient() call did, step is how far it got
Run(gc, step) == [gc |-> gc, step |-> step]

\* the settled promise of a backend operation
Resolved(v) == [ok |-> TRUE, value |-> v]
Rejected(m) == [ok |-> FALSE, error |-> m]

\* zod: the parsed arguments are the given ones with the schema's defaults for
\* the keys not given
parse(defaults, raw) == raw @@ defaults

----------------------------------------------------------------------------
(* The shared upload helper and option schema *)

\* index.js:86-94
uploadOptionsSchema ==
    [folder |-> <<"/">>, useUniqueFileName |-> TRUE, isPrivateFile |-> FALSE,
     overwriteFile |-> FALSE]

\* index.js:58-69  the request uploadToImageKit assembles; fileData is a string
\* or undefined (then the request has no file)
uploadOptions(fileData, fileName, options) ==
    (IF fileData = undefined THEN NoKeys ELSE "file" :> fileData)
    @@ [fileName |-> fileName,
        folder |-> trimSlash(Get(options, "folder")),
        useUniqueFileName |-> IF Has(options, "useUniqueFileName")
                              THEN options.useUniqueFileName ELSE TRUE,
        isPrivateFile |-> IF Has(options, "isPrivateFile") THEN options.isPrivateFile ELSE FALSE,
        overwriteFile |-> IF Has(options, "overwriteFile") THEN options.overwriteFile ELSE FALSE]
    @@ (IF Has(options, "tags") /\ Len(options.tags) > 0
        THEN "tags" :> options.tags ELSE NoKeys)
    @@ (IF Has(options, "customCoordinates") /\ options.customCoordinates # <<>>
        THEN "customCoordinates" :> options.customCoordinates ELSE NoKeys)
    @@ (IF Has(options, "customMetadata")
        THEN "customMetadata" :> options.customMetadata ELSE NoKeys)

\* index.js:55-71  uploadToImageKit up to `await ik.upload(uploadOptions)`
uploadToImageKit(fileData, fileName, options, cl, n, e) ==
    LET gc == getClient(cl, n, e)
    IN  IF gc.threw THEN Run(gc, Throw(MissingCredentials))
        ELSE Run(gc, Await("upload", uploadOptions(fileData, fileName, options)))

\* index.js:71-81  uploadToImageKit after the await
uploadToImageKitResume(settled) ==
    IF ~settled.ok THEN Throw(settled.error)
    ELSE LET result == settled.value
         IN  Return(formatResult(
                 <<"File uploaded successfully.\n\n", "   Name: ">> \o result.name
                 \o <<"\n   ID: ">> \o result.fileId
                 \o <<"\n   URL: ">> \o result.url
                 \o <<"\n   Size: ", toFixed1KB(result.size), " KB">>
                 \o <<"\n   Path: ">> \o result.filePath
                 \o <<"\n   Type: ">> \o result.fileType))

----------------------------------------------------------------------------
(* The local file system, as upload_file sees it *)

\* the paths that exist: a readable file with its content in base64, and a
\* directory (fs.readFileSync throws on it)
Disk ==
    (<<"/", "t", "/", "f">> :> [kind |-> "file", base64 |-> <<"Z", "g", "=", "=">>])
    @@ (<<"/", "t">> :> [kind |-> "dir"])

\* fs.existsSync
existsSync(p) == p \in DOMAIN Disk

ReadError == <<"EISDIR: illegal operation on a directory, read">>

\* path.basename: the part after the last slash, trailing slashes ignored
RECURSIVE basename(_)
basename(p) ==
    IF Len(p) > 1 /\ endsWith(p, <<"/">>) THEN basename(sliceDropLast(p))
    ELSE IF SepPositions(p, "/") = {} THEN p
    ELSE LET last == CHOOSE i \in SepPositions(p, "/") : \A j \in SepPositions(p, "/") : j <= i
         IN  SubSeq(p, last + 1, Len(p))

----------------------------------------------------------------------------
(* The tool handlers.  <tool>Run is the handler from its start to its      *)
(* return, throw or first await; <tool>Resume is the rest of it, run when  *)
(* the awaited backend promise has settled.                                *)

DefaultLimit == 20
DefaultExpireSeconds == 300

\* index.js:109-116
list_filesSchema ==
    [path |-> <<"/">>, limit |-> DefaultLimit, skip |-> 0, fileType |-> "all",
     sort |-> <<"DESC_CREATED">>]

\* index.js:117-131
list_filesRun(args, cl, n, e) ==
    LET gc == getClient(cl, n, e)
        params == [path |-> args.path, limit |-> args.limit, skip |-> args.skip,
                   sort |-> args.sort, includeFolder |-> TRUE]
                  @@ (IF ~Not(Get(args, "searchQuery"))
                      THEN "searchQuery" :> args.searchQuery ELSE NoKeys)
                  @@ (IF args.fileType # "all" THEN "fileType" :> args.fileType ELSE NoKeys)
    IN  IF gc.threw THEN Run(gc, Throw(MissingCredentials))
        ELSE Run(gc, Await("listFiles", params))

\* index.js:131-144
list_filesResume(args, settled) ==
    IF ~settled.ok THEN Throw(settled.error)
    ELSE LET result == settled.value
             count == Len(result)
             searched == ~Not(Get(args, "searchQuery"))
             lines == [i \in 1..count |-> formatFileInfo(result[i])]
         IN  IF count = 0
             THEN Return(formatResult(
                      <<"No files found in \"">> \o args.path \o <<"\"">>
                      \o (IF searched THEN <<" matching \"">> \o args.searchQuery \o <<"\"">>
                          ELSE <<>>) \o <<".">>))
             ELSE Return(formatResult(
                      <<"Found ", ToString(count), " file(s)">>
                      \o (IF searched THEN <<" matching \"">> \o args.searchQuery \o <<"\"">>
                          ELSE <<>>)
                      \o <<" in \"">> \o args.path \o <<"\":", "\n\n">>
                      \o join(lines, <<"\n\n">>)))

\* index.js:150-152
list_foldersSchema == [path |-> <<"/">>]

\* index.js:153-160
list_foldersRun(args, cl, n, e) ==
    LET gc == getClient(cl, n, e)
    IN  IF gc.threw THEN Run(gc, Throw(MissingCredentials))
        ELSE Run(gc, Await("listFiles",
                           [path |-> args.path, includeFolder |-> TRUE, type |-> "folder"]))

\* index.js:156-173
list_foldersResume(args, settled) ==
    IF ~settled.ok THEN Throw(settled.error)
    ELSE LET folders == SelectSeq(settled.value, LAMBDA item : item.type = "folder")
             lines == [i \in 1..Len(folders) |->
                          folders[i].name \o <<"\n   ID: ">> \o Get(folders[i], "folderId")
                          \o <<"\n   Path: ">> \o Get(folders[i], "folderPath")]
         IN  IF Len(folders) = 0
             THEN Return(formatResult(<<"No folders found in \"">> \o args.path \o <<"\".">>))
             ELSE Return(formatResult(
                      <<"Found ", ToString(Len(folders)), " folder(s) in \"">> \o args.path
                      \o <<"\":", "\n\n">> \o join(lines, <<"\n\n">>)))

\* index.js:182-184
get_file_detailsRun(args, cl, n, e) ==
    LET gc == getClient(cl, n, e)
    IN  IF gc.threw THEN Run(gc, Throw(MissingCredentials))
        ELSE Run(gc, Await("getFileDetails", args.fileId))

\* index.js:184-200
get_file_detailsResume(args, settled) ==
    IF ~settled.ok THEN Throw(settled.error)
    ELSE LET f == settled.value
             dims == IF Has(f, "width") /\ Has(f, "height") /\ f.width # 0 /\ f.height # 0
                     THEN <<"\n   Dimensions: ", ToString(f.width), "x", ToString(f.height)>>
                     ELSE <<>>
             tags == IF Has(f, "tags") /\ Len(f.tags) > 0
                     THEN <<"\n   Tags: ">> \o join(f.tags, <<", ">>) ELSE <<>>
         IN  Return(formatResult(
                 <<"File details:\n\n", "   Name: ">> \o f.name
                 \o <<"\n   ID: ">> \o f.fileId
                 \o <<"\n   Type: ">> \o f.fileType
                 \o <<"\n   Size: ", toFixed1KB(f.size), " KB">> \o dims
                 \o <<"\n   URL: ">> \o f.url
                 \o <<"\n   Path: ">> \o f.filePath \o tags
                 \o <<"\n   Created: ">> \o f.createdAt
                 \o <<"\n   Updated: ">> \o f.updatedAt))

\* the upload_file handler with the client obtained before the existence check
upload_fileClientFirst(args, cl, n, e) ==
    LET gc == getClient(cl, n, e)
    IN  IF gc.threw THEN Run(gc, Throw(MissingCredentials))
        ELSE IF ~existsSync(args.filePath)
        THEN Run(gc, Return(formatError(<<"File not found: ">> \o args.filePath)))
        ELSE IF Disk[args.filePath].kind # "file"
        THEN Run(gc, Throw(ReadError))
        ELSE Run(gc, Await("upload",
                           uploadOptions(Disk[args.filePath].base64,
                                         IF Not(Get(args, "fileName"))
                                         THEN basename(args.filePath) ELSE args.fileName,
                                         Without(args, {"filePath", "fileName"}))))

\* index.js:211-221
upload_fileRun(args, cl, n, e) ==
    IF ~existsSync(args.filePath)
    THEN Run(NoClientUse(cl, n), Return(formatError(<<"File not found: ">> \o args.filePath)))
    ELSE IF Disk[args.filePath].kind # "file"
    THEN Run(NoClientUse(cl, n), Throw(ReadError))
    ELSE LET base64 == Disk[args.filePath].base64
             name == IF Not(Get(args, "fileName"))
                     THEN basename(args.filePath) ELSE args.fileName
         IN  uploadToImageKit(base64, name, Without(args, {"filePath", "fileName"}), cl, n, e)

\* the upload_file_from_url handler passing on no options
upload_file_from_urlNoOptions(args, cl, n, e) ==
    uploadToImageKit(args.url, args.fileName, NoKeys, cl, n, e)

\* index.js:232-234
upload_file_from_urlRun(args, cl, n, e) ==
    uploadToImageKit(args.url, args.fileName, Without(args, {"url", "fileName"}), cl, n, e)

\* index.js:247-249  the payload upload_base64_file forwards: a string, or
\* undefined when split(",") yields a single piece
clean(base64Data) ==
    IF startsWith(base64Data, <<"d", "a", "t", "a", ":">>)
    THEN IF Len(split(base64Data, ",")) >= 2 THEN split(base64Data, ",")[2] ELSE undefined
    ELSE base64Data

\* index.js:245-252
upload_base64_fileRun(args, cl, n, e) ==
    uploadToImageKit(clean(args.base64Data), args.fileName,
                     Without(args, {"base64Data", "fileName"}), cl, n, e)

\* delete_file with the promise of ik.deleteFile not awaited: a rejection is lost
delete_fileNotAwaited(args, settled) ==
    Return(formatResult(<<"File deleted successfully. ID: ">> \o args.fileId))

\* index.js:261-263
delete_fileRun(args, cl, n, e) ==
    LET gc == getClient(cl, n, e)
    IN  IF gc.threw THEN Run(gc, Throw(MissingCredentials))
        ELSE Run(gc, Await("deleteFile", args.fileId))

\* index.js:263-265
delete_fileResume(args, settled) ==
    IF ~settled.ok THEN Throw(settled.error)
    ELSE Return(formatResult(<<"File deleted successfully. ID: ">> \o args.fileId))

\* index.js:273
create_folderSchema == [parentFolderPath |-> <<"/">>]

\* index.js:275-277
create_folderRun(args, cl, n, e) ==
    LET gc == getClient(cl, n, e)
    IN  IF gc.threw THEN Run(gc, Throw(MissingCredentials))
        ELSE Run(gc, Await("createFolder",
                           [folderName |-> args.folderName,
                            parentFolderPath |-> args.parentFolderPath]))

\* index.js:277-279
create_folderResume(args, settled) ==
    IF ~settled.ok THEN Throw(settled.error)
    ELSE Return(formatResult(
             <<"Folder \"">> \o args.folderName \o <<"\" created in \"">>
             \o args.parentFolderPath \o <<"\".">>))

\* index.js:288-290
delete_folderRun(args, cl, n, e) ==
    LET gc == getClient(cl, n, e)
    IN  IF gc.threw THEN Run(gc, Throw(MissingCredentials))
        ELSE Run(gc, Await("deleteFolder", args.folderPath))

\* index.js:290-292
delete_folderResume(args, settled) ==
    IF ~settled.ok THEN Throw(settled.error)
    ELSE Return(formatResult(<<"Folder deleted: ">> \o args.folderPath))

\* index.js:302-304
move_fileRun(args, cl, n, e) ==
    LET gc == getClient(cl, n, e)
    IN  IF gc.threw THEN Run(gc, Throw(MissingCredentials))
        ELSE Run(gc, Await("moveFile",
                           [sourceFilePath |-> args.sourceFilePath,
                            destinationPath |-> args.destinationPath]))

\* index.js:304-306
move_fileResume(args, settled) ==
    IF ~settled.ok THEN Throw(settled.error)
    ELSE Return(formatResult(
             <<"File moved from \"">> \o args.sourceFilePath \o <<"\" to \"">>
             \o args.destinationPath \o <<"\".">>))

\* index.js:319-321
generate_urlSchema ==
    [transformationPosition |-> "path", signed |-> FALSE,
     expireSeconds |-> DefaultExpireSeconds]

\* index.js:324 testing for undefined only: an empty string counts as given
sourceMissingStrict(args) == ~Has(args, "path") /\ ~Has(args, "src")

\* index.js:324  !imgPath && !src
sourceMissing(args) == Not(Get(args, "path")) /\ Not(Get(args, "src"))

\* index.js:330-337 with the expiry set whether or not the URL is signed
generate_urlOptionsAlwaysExpire(args) ==
    [transformation_position |-> args.transformationPosition,
     expire_seconds |-> args.expireSeconds]
    @@ (IF ~Not(Get(args, "path")) THEN "path" :> args.path ELSE NoKeys)
    @@ (IF ~Not(Get(args, "src")) THEN "src" :> args.src ELSE NoKeys)
    @@ (IF Has(args, "transformation") THEN "transformation" :> args.transformation ELSE NoKeys)
    @@ (IF args.signed THEN "signed" :> TRUE ELSE NoKeys)

\* index.js:330-337  the options handed to ik.url
generate_urlOptions(args) ==
    [transformation_position |-> args.transformationPosition]
    @@ (IF ~Not(Get(args, "path")) THEN "path" :> args.path ELSE NoKeys)
    @@ (IF ~Not(Get(args, "src")) THEN "src" :> args.src ELSE NoKeys)
    @@ (IF Has(args, "transformation") THEN "transformation" :> args.transformation ELSE NoKeys)
    @@ (IF args.signed
        THEN [signed |-> TRUE, expire_seconds |-> args.expireSeconds] ELSE NoKeys)

\* index.js:341-344  the response text
generate_urlText(args, url) ==
    <<"Generated URL:\n\n   ">> \o url
    \o (IF args.signed
        THEN <<"\n\n   Signed: yes, expires in ", ToString(args.expireSeconds), "s">>
        ELSE <<>>)

\* index.js:323-345  generate_url; ik.url is synchronous, and built is what it
\* does with the options: the URL it returns or the error it throws
generate_urlRun(args, cl, n, e, built) ==
    IF sourceMissing(args)
    THEN Run(NoClientUse(cl, n), Return(formatError(<<"Either 'path' or 'src' is required.">>)))
    ELSE LET gc == getClient(cl, n, e)
             called == [op |-> "url", req |-> generate_urlOptions(args)]
         IN  IF gc.threw THEN Run(gc, Throw(MissingCredentials))
             ELSE IF ~built.ok THEN Run(gc, Throw(built.error) @@ called)
             ELSE Run(gc, Return(formatResult(generate_urlText(args, built.value))) @@ called)

----------------------------------------------------------------------------
(* The backend (the ImageKit service behind the SDK) *)

\* what each asynchronous backend operation may resolve with
FileEntry ==
    [type |-> "file", name |-> <<"a.png">>, fileType |-> <<"image">>, size |-> 2048,
     width |-> 4, height |-> 3, tags |-> <<<<"t1">>, <<"t2">>>>, fileId |-> <<"f1">>,
     url |-> <<"https://ik.example/a.png">>, filePath |-> <<"/a.png">>,
     createdAt |-> <<"2026-01-01">>, updatedAt |-> <<"2026-01-02">>]

FolderEntry ==
    [type |-> "folder", name |-> <<"photos">>, folderId |-> <<"d1">>,
     folderPath |-> <<"/photos">>]

Responses(op) ==
    CASE op = "listFiles" -> {<<>>, <<FileEntry, FolderEntry>>}
      [] op \in {"getFileDetails", "upload"} -> {FileEntry}
      [] OTHER -> {NoKeys}

\* the errors a backend operation may reject with
BackendErrors == {<<"The requested file does not exist.">>}

\* what the synchronous ik.url may do
UrlOutcomes == {Resolved(<<"https://ik.example/u">>), Rejected(<<"url: invalid options">>)}

----------------------------------------------------------------------------
(* The dispatcher: McpServer's tools/call handler around each tool handler *)

\* the ToolResults the host receives for a handler that returned or threw: a
\* returned result as it is, a thrown error as an isError result with its message
toolCallResult(completion) ==
    IF completion.kind = "return" THEN <<completion.value>>
    ELSE <<[content |-> <<[type |-> "text", text |-> completion.message]>>, isError |-> TRUE]>>

\* the rest of a suspended handler, by tool
Resume(tool, args, settled) ==
    CASE tool = "list_files" -> list_filesResume(args, settled)
      [] tool = "list_folders" -> list_foldersResume(args, settled)
      [] tool = "get_file_details" -> get_file_detailsResume(args, settled)
      [] tool \in {"upload_file", "upload_file_from_url", "upload_base64_file"} ->
             uploadToImageKitResume(settled)
      [] tool = "delete_file" -> delete_fileResume(args, settled)
      [] tool = "create_folder" -> create_folderResume(args, settled)
      [] tool = "delete_folder" -> delete_folderResume(args, settled)
      [] tool = "move_file" -> move_fileResume(args, settled)

\* a call slot with no call in it
IdleCall == [pc |-> "idle"]

\* the host's call of `tool` with the argument object `raw`, parsed to `args`,
\* enters slot c and its handler runs to its return, throw or first await
Begin(c, tool, raw, args, run) ==
    /\ calls[c].pc = "idle"
    /\ client' = run.gc.client
    /\ constructed' = run.gc.constructed
    /\ calls' = [calls EXCEPT ![c] =
           [tool |-> tool, raw |-> raw, args |-> args, ik |-> run.gc.ik,
            op |-> IF Has(run.step, "op") THEN run.step.op ELSE "none",
            req |-> IF Has(run.step, "req") THEN run.step.req ELSE NoKeys]
           @@ (IF run.step.kind = "await"
               THEN [pc |-> "awaiting", results |-> <<>>]
               ELSE [pc |-> "replied", settled |-> NoKeys,
                     completion |-> Pick(run.step, {"kind", "value", "message"}),
                     results |-> toolCallResult(run.step)])]
    /\ UNCHANGED <<env, subject, trail>>

\* the backend settles the promise slot c awaits; the handler runs to its end
Settle(c, settled) ==
    /\ calls[c].pc = "awaiting"
    /\ LET completion == Resume(calls[c].tool, calls[c].args, settled)
       IN  calls' = [calls EXCEPT ![c] =
               [pc |-> "replied", settled |-> settled, completion |-> completion,
                results |-> calls[c].results \o toolCallResult(completion)]
               @@ calls[c]]
    /\ UNCHANGED <<env, client, constructed, subject, trail>>

----------------------------------------------------------------------------
(* The eleven tools: one action per tool call the host may make.  raw is   *)
(* the argument object the host sent, valid against the tool's schema.     *)

list_files(c, raw) ==
    LET args == parse(list_filesSchema, raw)
    IN  Begin(c, "list_files", raw, args, list_filesRun(args, client, constructed, env))

list_folders(c, raw) ==
    LET args == parse(list_foldersSchema, raw)
    IN  Begin(c, "list_folders", raw, args, list_foldersRun(args, client, constructed, env))

get_file_details(c, raw) ==
    Begin(c, "get_file_details", raw, raw, get_file_detailsRun(raw, client, constructed, env))

upload_file(c, raw) ==
    LET args == parse(uploadOptionsSchema, raw)
    IN  Begin(c, "upload_file", raw, args, upload_fileRun(args, client, constructed, env))

upload_file_from_url(c, raw) ==
    LET args == parse(uploadOptionsSchema, raw)
    IN  Begin(c, "upload_file_from_url", raw, args,
              upload_file_from_urlRun(args, client, constructed, env))

upload_base64_file(c, raw) ==
    LET args == parse(uploadOptionsSchema, raw)
    IN  Begin(c, "upload_base64_file", raw, args,
              upload_base64_fileRun(args, client, constructed, env))

delete_file(c, raw) ==
    Begin(c, "delete_file", raw, raw, delete_fileRun(raw, client, constructed, env))

create_folder(c, raw) ==
    LET args == parse(create_folderSchema, raw)
    IN  Begin(c, "create_folder", raw, args, create_folderRun(args, client, constructed, env))

delete_folder(c, raw) ==
    Begin(c, "delete_folder", raw, raw, delete_folderRun(raw, client, constructed, env))

move_file(c, raw) ==
    Begin(c, "move_file", raw, raw, move_fileRun(raw, client, constructed, env))

generate_url(c, raw) ==
    LET args == parse(generate_urlSchema, raw)
    IN  \E built \in UrlOutcomes :
            Begin(c, "generate_url", raw, args,
                  generate_urlRun(args, client, constructed, env, built))

\* the backend resolves the operation slot c awaits
BackendResolve(c) ==
    /\ calls[c].pc = "awaiting"
    /\ \E v \in Responses(calls[c].op) : Settle(c, Resolved(v))

\* the backend operation slot c awaits fails
BackendReject(c) ==
    /\ calls[c].pc = "awaiting"
    /\ \E m \in BackendErrors : Settle(c, Rejected(m))

\* the host has its result; the slot is free for the next call
Close(c) ==
    /\ calls[c].pc = "replied"
    /\ calls' = [calls EXCEPT ![c] = IdleCall]
    /\ UNCHANGED <<env, client, constructed, subject, trail>>

----------------------------------------------------------------------------
(* The arguments and environments enumerated *)

CredentialValues == {<<>>, <<"k">>}

\* process.env of the concurrent model: all credentials set, none set, one empty
CoreEnvs ==
    {[IMAGEKIT_PUBLIC_KEY |-> <<"k">>, IMAGEKIT_PRIVATE_KEY |-> <<"k">>,
      IMAGEKIT_URL_ENDPOINT |-> <<"k">>],
     NoKeys,
     [IMAGEKIT_PUBLIC_KEY |-> <<"k">>, IMAGEKIT_PRIVATE_KEY |-> <<>>,
      IMAGEKIT_URL_ENDPOINT |-> <<"k">>]}

\* process.env of the argument model: each credential unset, empty or set
Envs ==
    {a @@ b @@ d : a \in OptField(PUBLIC_KEY, CredentialValues),
                   b \in OptField(PRIVATE_KEY, CredentialValues),
                   d \in OptField(URL_ENDPOINT, CredentialValues)}

FileNames == {<<>>, <<"n", ".", "p">>}
FilePaths == {<<"/", "t", "/", "f">>, <<"/", "t">>, <<"/", "t", "/", "x">>, <<>>}
Urls == {<<"https://h.example/i.png">>}
PlainBase64 == <<"Q", "U", "F", "B">>
DataUriBase64 == <<"d", "a", "t", "a", ":">> \o <<"x", ";", "b", ",">> \o PlainBase64

AllSet ==
    [folder |-> <<"/", "a", "/">>, useUniqueFileName |-> FALSE, isPrivateFile |-> TRUE,
     overwriteFile |-> TRUE, tags |-> <<<<"t1">>>>, customCoordinates |-> <<"1,1,2,2">>,
     customMetadata |-> [k |-> <<"v">>]]

\* the shared upload options of the concurrent model: none given, all given
CoreUploadOptions == {NoKeys, AllSet}

\* the shared upload options of the argument model
Folders == Strings({"/", "a"}, MaxFolderLen)
Flags ==
    {NoKeys} \cup {[useUniqueFileName |-> b, isPrivateFile |-> b, overwriteFile |-> b] :
                     b \in BOOLEAN}
Extras ==
    {NoKeys,
     [tags |-> <<>>, customCoordinates |-> <<>>, customMetadata |-> NoKeys],
     [tags |-> <<<<"t1">>>>, customCoordinates |-> <<"1,1,2,2">>,
      customMetadata |-> [k |-> <<"v">>]]}
RichUploadOptions ==
    {f @@ g @@ x : f \in OptField("folder", Folders), g \in Flags, x \in Extras}

\* base64Data: a head that is or resembles a data-URI marker, then any text
\* over comma, payload letter and semicolon
Heads == {<<>>, <<"d", "a", "t", "a", ":">>, <<"d", "a", "t", "a">>, <<"D", "a", "t", "a", ":">>}
Payloads == {h \o t : h \in Heads, t \in Strings({",", "A", ";"}, MaxTailLen)}

\* the arguments of the tools whose handlers pass them straight on
ListFilesInputs ==
    {NoKeys, [path |-> <<"/", "p">>, searchQuery |-> <<"l", "o", "g", "o">>,
              fileType |-> "image"]}
ListFoldersInputs == {[path |-> <<"/", "p">>]}
FileIdInputs == {[fileId |-> <<"f1">>]}
CreateFolderInputs == {[folderName |-> <<"n">>]}
DeleteFolderInputs == {[folderPath |-> <<"/", "p">>]}
MoveFileInputs ==
    {[sourceFilePath |-> <<"/", "p", "/", "i">>, destinationPath |-> <<"/", "q", "/">>]}

\* the arguments of the concurrent model
CoreUploadFileInputs ==
    {("filePath" :> <<"/", "t", "/", "f">>) @@ f @@ o :
        f \in OptField("fileName", FileNames), o \in CoreUploadOptions}
    \cup {[filePath |-> <<"/", "t">>], [filePath |-> <<"/", "t", "/", "x">>]}
CoreUploadUrlInputs ==
    {[url |-> u, fileName |-> f] @@ o : u \in Urls, f \in FileNames, o \in CoreUploadOptions}
CoreUploadBase64Inputs ==
    {[base64Data |-> b, fileName |-> f] @@ o :
        b \in {PlainBase64, DataUriBase64}, f \in FileNames, o \in CoreUploadOptions}
CoreGenerateUrlInputs ==
    {NoKeys, [path |-> <<"/", "i">>], [src |-> <<"s">>, signed |-> TRUE]}

\* the arguments of the argument model
RichUploadFileInputs ==
    {("filePath" :> p) @@ f @@ o :
        p \in FilePaths, f \in OptField("fileName", FileNames), o \in RichUploadOptions}
RichUploadUrlInputs ==
    {[url |-> u, fileName |-> f] @@ o : u \in Urls, f \in FileNames, o \in RichUploadOptions}
RichUploadBase64Inputs ==
    {[base64Data |-> b, fileName |-> f] @@ o :
        b \in {PlainBase64, DataUriBase64}, f \in FileNames, o \in RichUploadOptions}
    \cup {[base64Data |-> b, fileName |-> <<"n", ".", "p">>] : b \in Payloads}
RichGenerateUrlInputs ==
    {p @@ s @@ t @@ q @@ g @@ x :
        p \in OptField("path", {<<>>, <<"/", "i">>}),
        s \in OptField("src", {<<>>, <<"s">>}),
        t \in OptField("transformation", {<<>>, <<[height |-> <<"300">>]>>}),
        q \in OptField("transformationPosition", {"path", "query"}),
        g \in OptField("signed", BOOLEAN),
        x \in OptField("expireSeconds", {0, 60, DefaultExpireSeconds})}

----------------------------------------------------------------------------
(* The specifications *)

\* the slots free for a call
Free == {c \in DOMAIN calls : calls[c].pc = "idle"}

\* the process after start-up: no client yet, no call outstanding
Started(slots, envs) ==
    /\ env \in envs
    /\ client = 0
    /\ constructed = 0
    /\ calls = [c \in slots |-> IdleCall]
    /\ subject = <<>>
    /\ trail = <<>>

\* the concurrent model: up to NCalls calls outstanding, interleaved at their awaits
Init == Started(1..NCalls, CoreEnvs)

Next ==
    \/ \E c \in Free, raw \in ListFilesInputs : list_files(c, raw)
    \/ \E c \in Free, raw \in ListFoldersInputs : list_folders(c, raw)
    \/ \E c \in Free, raw \in FileIdInputs : get_file_details(c, raw)
    \/ \E c \in Free, raw \in CoreUploadFileInputs : upload_file(c, raw)
    \/ \E c \in Free, raw \in CoreUploadUrlInputs : upload_file_from_url(c, raw)
    \/ \E c \in Free, raw \in CoreUploadBase64Inputs : upload_base64_file(c, raw)
    \/ \E c \in Free, raw \in FileIdInputs : delete_file(c, raw)
    \/ \E c \in Free, raw \in CreateFolderInputs : create_folder(c, raw)
    \/ \E c \in Free, raw \in DeleteFolderInputs : delete_folder(c, raw)
    \/ \E c \in Free, raw \in MoveFileInputs : move_file(c, raw)
    \/ \E c \in Free, raw \in CoreGenerateUrlInputs : generate_url(c, raw)
    \/ \E c \in DOMAIN calls : BackendResolve(c)
    \/ \E c \in DOMAIN calls : BackendReject(c)
    \/ \E c \in DOMAIN calls : Close(c)

Spec == Init /\ [][Next]_vars

\* the argument model: one call at a time, over the wide argument sets
ArgInit == Started({1}, Envs)

ArgNext ==
    \/ \E c \in Free, raw \in ListFilesInputs : list_files(c, raw)
    \/ \E c \in Free, raw \in ListFoldersInputs : list_folders(c, raw)
    \/ \E c \in Free, raw \in FileIdInputs : get_file_details(c, raw)
    \/ \E c \in Free, raw \in RichUploadFileInputs : upload_file(c, raw)
    \/ \E c \in Free, raw \in RichUploadUrlInputs : upload_file_from_url(c, raw)
    \/ \E c \in Free, raw \in RichUploadBase64Inputs : upload_base64_file(c, raw)
    \/ \E c \in Free, raw \in FileIdInputs : delete_file(c, raw)
    \/ \E c \in Free, raw \in CreateFolderInputs : create_folder(c, raw)
    \/ \E c \in Free, raw \in DeleteFolderInputs : delete_folder(c, raw)
    \/ \E c \in Free, raw \in MoveFileInputs : move_file(c, raw)
    \/ \E c \in Free, raw \in RichGenerateUrlInputs : generate_url(c, raw)
    \/ \E c \in DOMAIN calls : BackendResolve(c)
    \/ \E c \in DOMAIN calls : BackendReject(c)
    \/ \E c \in DOMAIN calls : Close(c)

ArgSpec == ArgInit /\ [][ArgNext]_vars

\* trimSlash alone: a folder string, and trimSlash applied to it twice over
TrimSubjects ==
    Strings({"/", "a", "b"}, MaxFolderLen) \cup {<<"/", "a", "/", "b", "/">>}

ApplyTrim ==
    /\ Len(trail) < 2
    /\ trail' = Append(trail, trimSlash(IF trail = <<>> THEN subject ELSE trail[Len(trail)]))
    /\ UNCHANGED <<env, client, constructed, calls, subject>>

TrimInit ==
    /\ subject \in TrimSubjects
    /\ trail = <<>>
    /\ env = NoKeys
    /\ client = 0
    /\ constructed = 0
    /\ calls = [c \in {} |-> IdleCall]

TrimSpec == TrimInit /\ [][ApplyTrim]_vars

----------------------------------------------------------------------------
(* Properties *)

\* the calls the host has outstanding or has just been answered
Begun == {c \in DOMAIN calls : calls[c].pc # "idle"}
Replied == {c \in DOMAIN calls : calls[c].pc = "replied"}

\* the backend operation call c awaited failed
BackendFailed(c) == Has(calls[c].settled, "ok") /\ ~calls[c].settled.ok

\* a credential of the environment is unset or empty
SomeCredentialUnset ==
    \E k \in {PUBLIC_KEY, PRIVATE_KEY, URL_ENDPOINT} : ~Has(env, k) \/ env[k] = <<>>

\* C1: every tool call ends in exactly one ToolResult: a call the host has made is
\* either suspended at its backend operation with no result yet, or answered with
\* exactly one result; when the handler threw (missing credentials, unreadable
\* file, failing URL builder) or its backend operation failed, that result has
\* isError = TRUE and carries the message of the failure.
C1_OneResultPerCall ==
    \A c \in Begun :
        /\ calls[c].pc \in {"awaiting", "replied"}
        /\ calls[c].pc = "awaiting" => calls[c].results = <<>>
        /\ calls[c].pc = "replied" =>
            /\ Len(calls[c].results) = 1
            /\ calls[c].completion.kind \in {"return", "throw"}
            /\ calls[c].completion.kind = "throw" =>
                /\ IsError(calls[c].results[1])
                /\ TextOf(calls[c].results[1]) = calls[c].completion.message
            /\ BackendFailed(c) =>
                /\ IsError(calls[c].results[1])
                /\ TextOf(calls[c].results[1]) = calls[c].settled.error
            /\ (SomeCredentialUnset /\ calls[c].tool \notin {"upload_file", "generate_url"}) =>
                /\ IsError(calls[c].results[1])
                /\ TextOf(calls[c].results[1]) = MissingCredentials

\* C1 witness: a delete_file call whose backend operation failed has been answered
C1_Witness ==
    \E c \in Replied :
        /\ calls[c].tool = "delete_file"
        /\ BackendFailed(c)
        /\ Len(calls[c].results) = 1
        /\ IsError(calls[c].results[1])

\* C2: with a credential unset or empty no client is ever built, no backend
\* operation is ever invoked, and every call is answered with an error, which
\* is the missing-credentials error for every call that needs the backend (all
\* but an upload_file of a path that is no readable file and a generate_url
\* without a source).
C2_FailFast ==
    SomeCredentialUnset =>
        /\ client = 0
        /\ constructed = 0
        /\ \A c \in Begun :
            /\ calls[c].pc = "replied"
            /\ calls[c].op = "none"
            /\ calls[c].ik = 0
            /\ IsError(calls[c].results[1])
            /\ LET a == calls[c].raw
                   local == /\ calls[c].tool = "upload_file"
                            /\ (a.filePath \notin DOMAIN Disk \/ Disk[a.filePath].kind # "file")
                   sourceless == /\ calls[c].tool = "generate_url"
                                 /\ (~Has(a, "path") \/ a.path = <<>>)
                                 /\ (~Has(a, "src") \/ a.src = <<>>)
               IN  (~local /\ ~sourceless) =>
                       TextOf(calls[c].results[1]) = MissingCredentials

\* C2 witness: with only the URL endpoint empty, an upload of a readable file has
\* been answered with the missing-credentials error
C2_Witness ==
    /\ Has(env, PUBLIC_KEY) /\ env[PUBLIC_KEY] # <<>>
    /\ Has(env, PRIVATE_KEY) /\ env[PRIVATE_KEY] # <<>>
    /\ Has(env, URL_ENDPOINT) /\ env[URL_ENDPOINT] = <<>>
    /\ \E c \in Replied :
        /\ calls[c].tool = "upload_file"
        /\ calls[c].raw.filePath = <<"/", "t", "/", "f">>
        /\ calls[c].op = "none"
        /\ TextOf(calls[c].results[1]) = MissingCredentials

\* C3: the client is constructed at most once, and every getClient() call that
\* returned gave the one client object the module variable holds.
C3_SingleClient ==
    /\ constructed <= 1
    /\ \A c \in Begun : calls[c].ik # 0 => (calls[c].ik = client /\ client = 1)

\* C3 witness: two calls are suspended at once, both holding the one client
C3_Witness ==
    /\ constructed = 1
    /\ \E c, d \in DOMAIN calls :
        /\ c # d
        /\ calls[c].pc = "awaiting" /\ calls[d].pc = "awaiting"
        /\ calls[c].ik = client /\ calls[d].ik = client /\ client # 0

\* the calls of one tool
Of(tool) == {c \in Begun : calls[c].tool = tool}

\* the calls whose upload request has been handed to the backend
Uploading == {c \in Begun : calls[c].op = "upload"}

\* C4: an upload_file call whose filePath does not exist is answered with one
\* result that has isError = TRUE and the text "File not found: <filePath>", and
\* for that call the client is not obtained and no backend operation is invoked,
\* whatever the environment and the other arguments.
C4_FileNotFound ==
    \A c \in Of("upload_file") :
        calls[c].raw.filePath \notin DOMAIN Disk =>
            /\ calls[c].pc = "replied"
            /\ Len(calls[c].results) = 1
            /\ IsError(calls[c].results[1])
            /\ TextOf(calls[c].results[1]) = <<"File not found: ">> \o calls[c].raw.filePath
            /\ calls[c].ik = 0
            /\ calls[c].op = "none"

\* C4 witness: with all credentials set and every option given, an upload_file of
\* a nonexistent path has been answered with the error
C4_Witness ==
    /\ ~SomeCredentialUnset
    /\ \E c \in Of("upload_file") :
        /\ calls[c].raw.filePath = <<"/", "t", "/", "x">>
        /\ Has(calls[c].raw, "tags") /\ Has(calls[c].raw, "folder")
        /\ calls[c].pc = "replied"
        /\ IsError(calls[c].results[1])

\* path and src of a generate_url call are both not set (not given, or empty)
Sourceless(c) ==
    /\ ~Has(calls[c].raw, "path") \/ calls[c].raw.path = <<>>
    /\ ~Has(calls[c].raw, "src") \/ calls[c].raw.src = <<>>

\* C5: a generate_url call with neither path nor src set is answered with one
\* result that has isError = TRUE and the text "Either 'path' or 'src' is
\* required.", and for that call neither getClient nor the URL builder is called,
\* whatever the other arguments.
C5_SourceRequired ==
    \A c \in Of("generate_url") :
        Sourceless(c) =>
            /\ calls[c].pc = "replied"
            /\ Len(calls[c].results) = 1
            /\ IsError(calls[c].results[1])
            /\ TextOf(calls[c].results[1]) = <<"Either 'path' or 'src' is required.">>
            /\ calls[c].ik = 0
            /\ calls[c].op = "none"

\* C5 witness: with all credentials set, a signed generate_url with a
\* transformation and an empty path but no src has been answered with the error
C5_Witness ==
    /\ ~SomeCredentialUnset
    /\ \E c \in Of("generate_url") :
        /\ Sourceless(c)
        /\ Has(calls[c].raw, "path")
        /\ Has(calls[c].raw, "signed") /\ calls[c].raw.signed
        /\ Has(calls[c].raw, "transformation")
        /\ calls[c].pc = "replied"
        /\ IsError(calls[c].results[1])

\* the text after the first comma of a string that has a comma
AfterFirstComma(s) ==
    LET i == CHOOSE j \in SepPositions(s, ",") : \A k \in SepPositions(s, ",") : j <= k
    IN  SubSeq(s, i + 1, Len(s))

\* C6: in every upload request of upload_base64_file the payload is the whole
\* text after the first comma of base64Data when base64Data begins with "data:"
\* (and has a comma), and base64Data unchanged when it does not.
C6_PrefixStripped ==
    \A c \in Of("upload_base64_file") \cap Uploading :
        LET d == calls[c].raw.base64Data
        IN  IF startsWith(d, <<"d", "a", "t", "a", ":">>)
            THEN SepPositions(d, ",") # {} =>
                    /\ Has(calls[c].req, "file")
                    /\ calls[c].req.file = AfterFirstComma(d)
            ELSE Has(calls[c].req, "file") /\ calls[c].req.file = d

\* C7: trimSlash is idempotent, trimSlash("") is "/" and trimSlash("/a/b/") is
\* "/a/b".
C7_TrimIdempotent ==
    /\ Len(trail) = 2 => trail[2] = trail[1]
    /\ (subject = <<>> /\ Len(trail) >= 1) => trail[1] = <<"/">>
    /\ (subject = <<"/", "a", "/", "b", "/">> /\ Len(trail) >= 1) =>
           trail[1] = <<"/", "a", "/", "b">>

\* C8: in every upload request handed to the backend the folder is "/" when the
\* caller's folder is omitted, empty or "/", it is never the empty string, and
\* otherwise it is the caller's folder less one trailing slash.
C8_FolderNormalized ==
    \A c \in Uploading :
        LET given == IF Has(calls[c].raw, "folder") THEN calls[c].raw.folder ELSE <<>>
            folder == calls[c].req.folder
        IN  /\ folder # <<>>
            /\ given \in {<<>>, <<"/">>} => folder = <<"/">>
            /\ given \notin {<<>>, <<"/">>} =>
                   folder = IF given[Len(given)] = "/"
                            THEN SubSeq(given, 1, Len(given) - 1) ELSE given

\* the calls of generate_url that reached the URL builder
Building == {c \in Of("generate_url") : calls[c].op = "url"}

\* the text of the result of a call whose handler returned
Answer(c) == TextOf(calls[c].results[1])

\* C9: when generate_url is called with signed true, the options handed to the
\* URL builder carry signed = TRUE and the expiry, which is the given
\* expireSeconds or 300 when none is given, and the response text ends by stating
\* that the URL is signed with that expiry; when signed is false or not given,
\* the options carry neither an expiry nor a signed flag and the response text is
\* the URL alone, whatever expireSeconds is.
C9_Signing ==
    \A c \in Building :
        LET raw == calls[c].raw
            signed == Has(raw, "signed") /\ raw.signed
            expiry == IF Has(raw, "expireSeconds") THEN raw.expireSeconds ELSE 300
            returned == calls[c].completion.kind = "return"
            url == calls[c].completion.value.content[1].text[2]
        IN  IF signed
            THEN /\ Has(calls[c].req, "signed") /\ calls[c].req.signed = TRUE
                 /\ Has(calls[c].req, "expire_seconds")
                 /\ calls[c].req.expire_seconds = expiry
                 /\ returned =>
                        /\ ~IsError(calls[c].results[1])
                        /\ Answer(c) = <<"Generated URL:\n\n   ", url,
                                         "\n\n   Signed: yes, expires in ",
                                         ToString(expiry), "s">>
            ELSE /\ ~Has(calls[c].req, "expire_seconds")
                 /\ ~Has(calls[c].req, "signed")
                 /\ returned => Answer(c) = <<"Generated URL:\n\n   ", url>>

\* C9 witness: a signed URL was built with no expireSeconds given, and an
\* unsigned one with expireSeconds given
C9_Witness ==
    \E c \in Building :
        /\ calls[c].completion.kind = "return"
        /\ \/ /\ Has(calls[c].raw, "signed") /\ calls[c].raw.signed
              /\ ~Has(calls[c].raw, "expireSeconds")
              /\ calls[c].req.expire_seconds = 300
           \/ /\ Has(calls[c].raw, "signed") /\ ~calls[c].raw.signed
              /\ Has(calls[c].raw, "expireSeconds") /\ calls[c].raw.expireSeconds = 60
              /\ ~Has(calls[c].req, "expire_seconds")

\* the arguments the three upload tools share, as the caller gave them
SharedOptions ==
    {"folder", "useUniqueFileName", "isPrivateFile", "overwriteFile", "tags",
     "customCoordinates", "customMetadata"}
Shared(c) == Pick(calls[c].raw, SharedOptions)

\* two upload requests agree in every field but the payload
SameButPayload(c, d) == Without(calls[c].req, {"file"}) = Without(calls[d].req, {"file"})

\* C10, as stated: any two upload requests handed to the backend for calls
\* given the same fileName and the same shared options agree in every field but
\* the payload.
C10_UploadsAgree ==
    \A c, d \in Uploading :
        (/\ Has(calls[c].raw, "fileName") /\ Has(calls[d].raw, "fileName")
         /\ calls[c].raw.fileName = calls[d].raw.fileName
         /\ Shared(c) = Shared(d))
        => SameButPayload(c, d)

\* C10, amended: any two upload requests handed to the backend for calls given
\* the same non-empty fileName and the same shared options agree in every field
\* but the payload, and so does each with the canonical request for its
\* arguments: the folder less one trailing slash, the flags defaulting to true,
\* false, false, tags and customCoordinates only when given and not empty, and
\* customMetadata only when given.
C10_UploadsAgreeNamed ==
    \A c, d \in Uploading :
        (/\ Has(calls[c].raw, "fileName") /\ Has(calls[d].raw, "fileName")
         /\ calls[c].raw.fileName = calls[d].raw.fileName
         /\ calls[c].raw.fileName # <<>>
         /\ Shared(c) = Shared(d))
        => /\ SameButPayload(c, d)
           /\ calls[c].req.fileName = calls[c].raw.fileName
           /\ calls[c].req.useUniqueFileName =
                  (IF Has(calls[c].raw, "useUniqueFileName")
                   THEN calls[c].raw.useUniqueFileName ELSE TRUE)
           /\ calls[c].req.isPrivateFile =
                  (IF Has(calls[c].raw, "isPrivateFile")
                   THEN calls[c].raw.isPrivateFile ELSE FALSE)
           /\ calls[c].req.overwriteFile =
                  (IF Has(calls[c].raw, "overwriteFile")
                   THEN calls[c].raw.overwriteFile ELSE FALSE)
           /\ Has(calls[c].req, "tags") <=>
                  (Has(calls[c].raw, "tags") /\ calls[c].raw.tags # <<>>)
           /\ Has(calls[c].req, "customCoordinates") <=>
                  (Has(calls[c].raw, "customCoordinates")
                   /\ calls[c].raw.customCoordinates # <<>>)
           /\ Has(calls[c].req, "customMetadata") <=> Has(calls[c].raw, "customMetadata")

\* C10 witness: the requests of an upload_file and an upload_base64_file with a
\* data-URI prefix, given the same name and all options, are at the backend
\* together and agree but for the payload
C10_Witness ==
    \E c, d \in Uploading :
        /\ calls[c].tool = "upload_file" /\ calls[d].tool = "upload_base64_file"
        /\ calls[d].raw.base64Data = DataUriBase64
        /\ calls[c].pc = "awaiting" /\ calls[d].pc = "awaiting"
        /\ Has(calls[c].raw, "fileName") /\ calls[c].raw.fileName = <<"n", ".", "p">>
        /\ calls[d].raw.fileName = calls[c].raw.fileName
        /\ Shared(c) = AllSet /\ Shared(d) = AllSet
        /\ SameButPayload(c, d)
        /\ calls[c].req.file # calls[d].req.file

\* a source argument of a generate_url call that the caller supplied: given and
\* not the empty string
Supplied(c, k) == Has(calls[c].raw, k) /\ calls[c].raw[k] # <<>>

\* C11: for every generate_url call that supplies at least one of path and src,
\* a call that supplies both included, the options handed to the URL builder
\* name exactly one source: they have path or they have src, and not both.
C11_OneSource ==
    \A c \in Building :
        (Supplied(c, "path") \/ Supplied(c, "src")) =>
            Has(calls[c].req, "path") # Has(calls[c].req, "src")

====
